---- MODULE Spec2Model ----
(***************************************************************************)
(* Model of the avoca HTTP client (package avoca, src/client.go lines      *)
(* 161-365, src/errors.go, and the test doubles of the test file):         *)
(* Client.Do, copyHTTPRequestBody, newNopCloserFromBody, the five verb     *)
(* helpers, NewClient with its options, the retriers noRetry and           *)
(* mockRetrier, and a request executor (Doer) that may return any outcome. *)
(*                                                                         *)
(* One behaviour of the model is one call made on one client: the client   *)
(* is built by NewClient in Init, the call is entered by one of the entry  *)
(* actions (Do, Get, Post, Put, Patch, Delete) and then runs step by step  *)
(* until pc = "done", where ret holds the pair the call returned.          *)
(***************************************************************************)
EXTENDS Integers, Sequences, FiniteSets, TLC

(***************************************************************************)
(* Bounds of the model.                                                    *)
(***************************************************************************)
\* largest maxAttempts a mockRetrier is configured with
MaxAttempts == 4
\* longest request body, in bytes
MaxBodyLen == 2
\* largest number of readers made from one captured buffer in the replay harness
MaxViews == 3
\* largest maxAttempts of a mockRetrier where termination is checked
MaxLiveAttempts == 2
\* maxAttempts of the mockRetrier of the client two calls share
MaxConcAttempts == 2
\* maxAttempts of the mockRetrier of the client Do is called twice on
MaxAgainAttempts == 2
\* largest number of options NewClient is followed through
MaxOptions == 3

(***************************************************************************)
(* Errors.  An error value is a chain of links, outermost first; a link    *)
(* exposes the rest of the chain through Unwrap() or it does not.  The nil *)
(* error is the empty chain.                                               *)
(***************************************************************************)
Link(t, u) == [type |-> t, unwrap |-> u]

NilErr == <<>>

\* errors.go:21  var ErrStatusCode = errors.New("status code internal error")
ErrStatusCode == <<Link("ErrStatusCode", FALSE)>>

\* the test file's errFailRequest = errors.New("fail this request")
errFailRequest == <<Link("errFailRequest", FALSE)>>

\* the error http.Client.Do returns together with a response when
\* CheckRedirect fails: a *url.Error, which has Unwrap()
errRedirect == <<Link("url.Error", TRUE), Link("errCheckRedirect", FALSE)>>

\* brokenCloser.Close: errors.New("cannot close")
errClose == <<Link("cannot close", FALSE)>>

\* the error of a body stream whose Read fails
errRead == <<Link("cannot read", FALSE)>>

\* context.Canceled, the error of a cancelled context
errContextCanceled == <<Link("context canceled", FALSE)>>

\* net/http: NewRequestWithContext with a nil context
errNilContext == <<Link("net/http: nil Context", FALSE)>>

\* net/http: NewRequestWithContext with a URL url.Parse rejects (*url.Error)
errParseURL == <<Link("url.Error", TRUE), Link("missing protocol scheme", FALSE)>>

\* a mutant of RequestCreationError: the cause is returned as it is
RequestCreationError_bare(err) == err

\* errors.go:9-16  &RequestCreationError{err}: a struct with the field Err and
\* the method Error(), and no Unwrap()
RequestCreationError(err) == <<Link("RequestCreationError", FALSE)>> \o err

IsRequestCreationError(err) ==
    /\ err # NilErr
    /\ Head(err) = Link("RequestCreationError", FALSE)

RECURSIVE ErrorsIs(_, _)
\* errors.Is(err, target): walks the Unwrap() chain of err
ErrorsIs(err, target) ==
    IF err = NilErr THEN FALSE
    ELSE IF err = target THEN TRUE
    ELSE IF Head(err).unwrap THEN ErrorsIs(Tail(err), target)
    ELSE FALSE

\* errors_test.go:11-13: errors.New("an error message")
errAnErrorMessage == <<Link("an error message", FALSE)>>

\* The text of an error is a sequence of pieces; concatenating them gives the
\* string Error() returns.
RECURSIVE ErrorString(_)
RECURSIVE RequestCreationErrorError(_)

\* a mutant of RequestCreationErrorError: the cause is left out of the text
RequestCreationErrorError_noCause(cause) == <<"request creation failed">>

\* errors.go:14-16: fmt.Errorf("request creation failed: %w", e.Err).Error(),
\* for the value cause of the field Err
RequestCreationErrorError(cause) ==
    IF cause = NilErr THEN <<"request creation failed: ", "%!w(<nil>)">>
    ELSE <<"request creation failed: ">> \o ErrorString(cause)

\* err.Error(): an error made by errors.New gives its text, a *url.Error
\* gives the operation and URL followed by the text of the error it wraps
ErrorString(err) ==
    IF err = NilErr THEN <<"<nil>">>
    ELSE IF Head(err).type = "RequestCreationError"
         THEN RequestCreationErrorError(Tail(err))
    ELSE IF Head(err).type = "url.Error"
         THEN <<"op \"url\": ">> \o ErrorString(Tail(err))
    ELSE <<Head(err).type>>

(***************************************************************************)
(* Byte buffers, body streams and responses.                               *)
(***************************************************************************)
\* the content of a body of n bytes: the bytes 1, 2, ..., n
Data(n) == [i \in 1..n |-> i]

\* a nil []byte and a non-nil one
NilBuf == [isNil |-> TRUE, bytes |-> <<>>]
Buf(s) == [isNil |-> FALSE, bytes |-> s]

\* a nil io.Reader / io.ReadCloser
NilStream == [isNil |-> TRUE, data |-> <<>>, pos |-> 0, closed |-> 0,
              readFails |-> FALSE, closeFails |-> FALSE, readBlocks |-> FALSE]

\* a stream over data, positioned at its start; closed counts the Close calls
Stream(data, rf, cf) == [isNil |-> FALSE, data |-> data, pos |-> 0, closed |-> 0,
                         readFails |-> rf, closeFails |-> cf, readBlocks |-> FALSE]

\* a stream whose Read, after the data, neither returns io.EOF nor fails: a
\* pipe nobody writes to or closes
BlockingStream(data) == [Stream(data, FALSE, FALSE) EXCEPT !.readBlocks = TRUE]

\* the bytes a reader of stream s gets by reading it to the end
Remaining(s) == SubSeq(s.data, s.pos + 1, Len(s.data))

\* the body streams a caller can pass: an empty one, one of the longest
\* content, two that fail and one that never ends
BodyStreams ==
    {Stream(Data(n), FALSE, FALSE) : n \in {0, MaxBodyLen}}
        \cup {Stream(Data(MaxBodyLen), TRUE, FALSE), Stream(Data(MaxBodyLen), FALSE, TRUE)}
        \cup {BlockingStream(Data(MaxBodyLen))}

NilRes == [isNil |-> TRUE, StatusCode |-> 0, id |-> 0]

\* the response of executor invocation number id
Response(status, id) == [isNil |-> FALSE, StatusCode |-> status, id |-> id]

StatusOK == 200
StatusInternalServerError == 500
Statuses == {StatusOK, StatusInternalServerError}

(***************************************************************************)
(* Retry policies.                                                         *)
(***************************************************************************)
\* a mutant of defaultRetryPolicy: server errors are retried
defaultRetryPolicy_server(statusCode) == statusCode >= StatusInternalServerError

\* client.go:362-364
defaultRetryPolicy(statusCode) == FALSE

\* the policy of the tests: statusCode >= http.StatusInternalServerError
serverErrorPolicy(statusCode) == statusCode >= StatusInternalServerError

\* c.retryPolicy(statusCode) for the policy stored in the client
ApplyPolicy(policy, statusCode) ==
    IF policy = "defaultRetryPolicy" THEN defaultRetryPolicy(statusCode)
    ELSE serverErrorPolicy(statusCode)

(***************************************************************************)
(* NewClient and its options.                                              *)
(***************************************************************************)
noRetry == [type |-> "noRetry", maxAttempts |-> 0]
mockRetrier(n) == [type |-> "mockRetrier", maxAttempts |-> n]
\* a retry strategy that, like mockRetrier, retries on every error up to n
\* attempts and, between two attempts, gives up with the context's error when
\* it finds the context cancelled
ctxRetrier(n) == [type |-> "ctxRetrier", maxAttempts |-> n]

\* the number of attempts the client's retrier makes at most
MaxOf(r) == IF r.type = "noRetry" THEN 1 ELSE r.maxAttempts

\* client.go:318-322
WithHTTPClient(d) == [opt |-> "WithHTTPClient", client |-> d, retrier |-> noRetry, policy |-> ""]
\* client.go:325-329
WithRetrier(r) == [opt |-> "WithRetrier", client |-> "", retrier |-> r, policy |-> ""]
\* client.go:332-336
WithRetryPolicy(p) == [opt |-> "WithRetryPolicy", client |-> "", retrier |-> noRetry, policy |-> p]

\* opt(&client)
ApplyOption(c, o) ==
    IF o.opt = "WithHTTPClient" THEN [c EXCEPT !.client = o.client]
    ELSE IF o.opt = "WithRetrier" THEN [c EXCEPT !.retrier = o.retrier]
    ELSE [c EXCEPT !.retryPolicy = o.policy]

RECURSIVE ApplyOptions(_, _)
RECURSIVE ApplyOptions_reversed(_, _)

\* a mutant of ApplyOptions: the options are applied from the last to the first
ApplyOptions_reversed(c, opts) ==
    IF opts = <<>> THEN c
    ELSE ApplyOption(ApplyOptions_reversed(c, Tail(opts)), Head(opts))

\* client.go:346-349: for _, opt := range opts { opt(&client) }
ApplyOptions(c, opts) ==
    IF opts = <<>> THEN c ELSE ApplyOptions(ApplyOption(c, Head(opts)), Tail(opts))

\* a mutant of NewClient: the default retrier makes two attempts
NewClient_retrying(opts) ==
    ApplyOptions([client |-> "http.Client", retrier |-> mockRetrier(2),
                  retryPolicy |-> "defaultRetryPolicy"], opts)

\* client.go:339-352
NewClient(opts) ==
    ApplyOptions([client |-> "http.Client", retrier |-> noRetry,
                  retryPolicy |-> "defaultRetryPolicy"], opts)

\* the options the clients of the model are built from
Options ==
    {WithHTTPClient("mockHTTPClient"), WithHTTPClient("http.Client")}
        \cup {WithRetrier(mockRetrier(n)) : n \in 1..MaxAttempts}
        \cup {WithRetrier(ctxRetrier(2))}
        \cup {WithRetryPolicy("serverErrorPolicy"), WithRetryPolicy("defaultRetryPolicy")}

\* the option lists NewClient is called with: any list of at most three options
OptionLists ==
    {<<>>} \cup {<<o>> : o \in Options} \cup {<<o, p>> : o \in Options, p \in Options}
        \cup {<<o, p, q>> : o \in Options, p \in Options, q \in Options}

(***************************************************************************)
(* Requests.                                                               *)
(***************************************************************************)
dummyURL == "whatever"
\* a URL that url.Parse rejects
badURL == ":"

dummyHeader == "content-type: application/json"
NilHeader == "nil"

Contexts == {"nil", "background", "cancelled"}
URLs == {dummyURL, badURL}
Headers == {dummyHeader, NilHeader}
Methods == {"GET", "POST", "PUT", "PATCH", "DELETE"}

\* a nil *http.Request
NilReq == [isNil |-> TRUE, Method |-> "", URL |-> "", Header |-> NilHeader,
           ctx |-> "nil", Body |-> "nil"]

\* the field Body of a request is a reference: "nil", "orig" (the stream the
\* caller supplied, variable orig) or "view" (the reader installed by the
\* callback, variable view)
Request(method, url, ctx, bodyRef) ==
    [isNil |-> FALSE, Method |-> method, URL |-> url, Header |-> NilHeader,
     ctx |-> ctx, Body |-> bodyRef]

\* http.NewRequestWithContext(ctx, method, url, body) of net/http, as the verb
\* helpers call it: it fails on a nil context and on a URL that does not
\* parse, and on nothing else; it does not look at ctx.Err()
NewRequestWithContext(ctx, method, url, bodyStream) ==
    IF ctx = "nil" THEN [req |-> NilReq, err |-> errNilContext]
    ELSE IF url = badURL THEN [req |-> NilReq, err |-> errParseURL]
    ELSE [req |-> Request(method, url, ctx, IF bodyStream.isNil THEN "nil" ELSE "orig"),
          err |-> NilErr]

\* req.WithContext(ctx): a shallow copy of req with the context replaced
WithContext(r, ctx) == [r EXCEPT !.ctx = ctx]

(***************************************************************************)
(* State.                                                                  *)
(***************************************************************************)
VARIABLES
    client,     \* the Client: fields client (the Doer), retrier, retryPolicy
    pc,         \* position of the call: idle, Do, retrier, executor, return, done
    call,       \* the entry point called and the arguments it was given
    req,        \* the *http.Request Client.Do works on
    orig,       \* the body stream the caller supplied
    view,       \* the reader installed in req.Body by the callback
    body,       \* Do's local variable body: the captured buffer
    res,        \* Do's local variable res
    err,        \* Do's local variable err
    attempt,    \* mockRetrier.Do's loop variable
    count,      \* number of invocations of the executor so far
    retrierCalls, \* number of invocations of c.retrier.Do so far
    observed,   \* per invocation, the bytes the executor could read from req.Body
    outcomes,   \* per invocation, what the executor returned
    leftover,   \* an earlier attempt left req.Body partly read and closed
    views,      \* the readers made by newNopCloserFromBody that are still in use
    handles,    \* per call of newNopCloserFromBody, the reader returned (0: nil)
    retrierCtx, \* the context Do passed to c.retrier.Do
    handed,     \* per invocation of the callback, the context the retrier handed it
    sent,       \* per invocation, the request the executor received
    signals,    \* per invocation of the callback, the error it returned
    policyCalls, \* the status codes c.retryPolicy was called with, in order
    resBodies,  \* per invocation, the state of the body of the response returned
    prior,      \* what an earlier Do call on the same request left behind
    calls,      \* the Do calls in progress on one client, in the concurrent harness
    given,      \* the options NewClient has applied so far, while it builds the client
    ret         \* what the call returned to its caller

vars == <<client, pc, call, req, orig, view, body, res, err, attempt, count,
          retrierCalls, observed, outcomes, leftover, views, handles, retrierCtx,
          handed, sent, signals, policyCalls, resBodies, prior, calls, given, ret>>

\* the variables only the replay harness (SpecReplay) changes
replayVars == <<views, handles>>

\* the variables only the harnesses change
harnessVars == <<replayVars, prior, calls, given>>

\* the record kept of what Do and its collaborators did
historyVars == <<retrierCtx, handed, sent, signals, policyCalls, resBodies>>

NoRet == [set |-> FALSE, res |-> NilRes, err |-> NilErr]
Return(r, e) == [set |-> TRUE, res |-> r, err |-> e]

\* no earlier call on the request
NoPrior == [set |-> FALSE, content |-> NilBuf, ref |-> "nil", pos |-> 0]

NoCall == [fn |-> "", ctx |-> "nil", url |-> "", headers |-> NilHeader,
           content |-> NilBuf]

\* the stream req.Body refers to
BodyOf(r, o, v) ==
    IF r.Body = "orig" THEN o ELSE IF r.Body = "view" THEN v ELSE NilStream

\* what a reader of req.Body gets: nil when there is no body
Readable(r, o, v) ==
    IF r.Body = "nil" THEN NilBuf ELSE Buf(Remaining(BodyOf(r, o, v)))

Init ==
    /\ client \in {NewClient(opts) : opts \in OptionLists}
    /\ pc = "idle"
    /\ call = NoCall
    /\ req = NilReq
    /\ orig = NilStream
    /\ view = NilStream
    /\ body = NilBuf
    /\ res = NilRes
    /\ err = NilErr
    /\ attempt = 0
    /\ count = 0
    /\ retrierCalls = 0
    /\ observed = <<>>
    /\ outcomes = <<>>
    /\ leftover = FALSE
    /\ views = <<>>
    /\ handles = <<>>
    /\ retrierCtx = "nil"
    /\ handed = <<>>
    /\ sent = <<>>
    /\ signals = <<>>
    /\ policyCalls = <<>>
    /\ resBodies = <<>>
    /\ prior = NoPrior
    /\ calls = <<>>
    /\ given = <<>>
    /\ ret = NoRet

(***************************************************************************)
(* Entry points.                                                           *)
(***************************************************************************)
\* the content a caller's body stream holds (nil for a nil stream)
ContentOf(s) == IF s.isNil THEN NilBuf ELSE Buf(Remaining(s))

\* a mutant of VerbHelper: the headers are not set on the request
VerbHelper_noHeaders(method, ctx, url, bodyStream, headers, withContext) ==
    LET made == NewRequestWithContext(ctx, method, url, bodyStream)
        r    == made.req
    IN  /\ pc = "idle"
        /\ UNCHANGED harnessVars
        /\ call' = [fn |-> method, ctx |-> ctx, url |-> url, headers |-> headers,
                    content |-> ContentOf(bodyStream)]
        /\ IF made.err # NilErr
           THEN /\ ret' = Return(NilRes, RequestCreationError(made.err))
                /\ pc' = "done"
                /\ UNCHANGED <<req, orig>>
           ELSE /\ req' = (IF withContext THEN WithContext(r, ctx) ELSE r)
                /\ orig' = bodyStream
                /\ pc' = "Do"
                /\ ret' = NoRet
        /\ UNCHANGED <<client, view, body, res, err, attempt, count, retrierCalls,
                       observed, outcomes, leftover, historyVars>>

\* a mutant of VerbHelper: a failure of NewRequestWithContext is ignored and
\* Do is called with the request
VerbHelper_ignoreErr(method, ctx, url, bodyStream, headers, withContext) ==
    LET r == [Request(method, url, ctx, IF bodyStream.isNil THEN "nil" ELSE "orig")
                EXCEPT !.Header = headers]
    IN  /\ pc = "idle"
        /\ UNCHANGED harnessVars
        /\ call' = [fn |-> method, ctx |-> ctx, url |-> url, headers |-> headers,
                    content |-> ContentOf(bodyStream)]
        /\ req' = r
        /\ orig' = bodyStream
        /\ pc' = "Do"
        /\ ret' = NoRet
        /\ UNCHANGED <<client, view, body, res, err, attempt, count, retrierCalls,
                       observed, outcomes, leftover, historyVars>>

\* client.go:260-312: the body shared by Get, Post, Put, Patch and Delete.
\* Get, Post and Put call c.Do(req.WithContext(ctx)), Patch and Delete c.Do(req).
VerbHelper(method, ctx, url, bodyStream, headers, withContext) ==
    LET made == NewRequestWithContext(ctx, method, url, bodyStream)
        r    == [made.req EXCEPT !.Header = headers]
    IN  /\ pc = "idle"
        /\ UNCHANGED harnessVars
        /\ call' = [fn |-> method, ctx |-> ctx, url |-> url, headers |-> headers,
                    content |-> ContentOf(bodyStream)]
        /\ IF made.err # NilErr
           THEN /\ ret' = Return(NilRes, RequestCreationError(made.err))
                /\ pc' = "done"
                /\ UNCHANGED <<req, orig>>
           ELSE /\ req' = (IF withContext THEN WithContext(r, ctx) ELSE r)
                /\ orig' = bodyStream
                /\ pc' = "Do"
                /\ ret' = NoRet
        /\ UNCHANGED <<client, view, body, res, err, attempt, count, retrierCalls,
                       observed, outcomes, leftover, historyVars>>

\* client.go:260-268
Get == \E ctx \in Contexts, url \in URLs, h \in Headers :
    VerbHelper("GET", ctx, url, NilStream, h, TRUE)

\* client.go:271-279
Post == \E ctx \in Contexts, url \in URLs, h \in Headers, b \in BodyStreams \cup {NilStream} :
    VerbHelper("POST", ctx, url, b, h, TRUE)

\* client.go:282-290
Put == \E ctx \in Contexts, url \in URLs, h \in Headers, b \in BodyStreams \cup {NilStream} :
    VerbHelper("PUT", ctx, url, b, h, TRUE)

\* client.go:293-301
Patch == \E ctx \in Contexts, url \in URLs, h \in Headers, b \in BodyStreams \cup {NilStream} :
    VerbHelper("PATCH", ctx, url, b, h, FALSE)

\* client.go:304-312
Delete == \E ctx \in Contexts, url \in URLs, h \in Headers :
    VerbHelper("DELETE", ctx, url, NilStream, h, FALSE)

\* a caller calls client.Do(req) with a request it built itself: any method,
\* a non-nil context, a body or none
DoCall == \E m \in {"GET", "POST"}, ctx \in Contexts \ {"nil"},
             b \in BodyStreams \cup {NilStream} :
    /\ pc = "idle"
    /\ UNCHANGED harnessVars
    /\ call' = [fn |-> "Do", ctx |-> ctx, url |-> dummyURL, headers |-> dummyHeader,
                content |-> ContentOf(b)]
    /\ req' = [Request(m, dummyURL, ctx, IF b.isNil THEN "nil" ELSE "orig")
                 EXCEPT !.Header = dummyHeader]
    /\ orig' = b
    /\ pc' = "Do"
    /\ UNCHANGED <<client, view, body, res, err, attempt, count, retrierCalls,
                   observed, outcomes, leftover, historyVars, ret>>

(***************************************************************************)
(* Body capture and replay.                                                *)
(***************************************************************************)
\* a mutant of copyHTTPRequestBody: the error of Close is ignored
copyHTTPRequestBody_ignoreClose(r, o) ==
    IF r.Body = "nil" THEN [body |-> NilBuf, err |-> NilErr, orig |-> o]
    ELSE IF o.readFails THEN [body |-> NilBuf, err |-> errRead, orig |-> o]
    ELSE [body |-> Buf(Remaining(o)), err |-> NilErr,
          orig |-> [o EXCEPT !.pos = Len(o.data), !.closed = o.closed + 1]]

\* a mutant of copyHTTPRequestBody: the original body is left open
copyHTTPRequestBody_noClose(r, o) ==
    IF r.Body = "nil" THEN [body |-> NilBuf, err |-> NilErr, orig |-> o]
    ELSE IF o.readFails THEN [body |-> NilBuf, err |-> errRead, orig |-> o]
    ELSE [body |-> Buf(Remaining(o)), err |-> NilErr,
          orig |-> [o EXCEPT !.pos = Len(o.data)]]

\* a mutant of copyHTTPRequestBody: the stream is read from its start
copyHTTPRequestBody_rewind(r, o) ==
    IF r.Body = "nil" THEN [body |-> NilBuf, err |-> NilErr, orig |-> o]
    ELSE IF o.readFails THEN [body |-> NilBuf, err |-> errRead, orig |-> o]
    ELSE IF o.closeFails
         THEN [body |-> NilBuf, err |-> errClose,
               orig |-> [o EXCEPT !.pos = Len(o.data), !.closed = o.closed + 1]]
    ELSE [body |-> Buf(o.data), err |-> NilErr,
          orig |-> [o EXCEPT !.pos = Len(o.data), !.closed = o.closed + 1]]

\* client.go:233-247: the buffer and the error returned, and the state the
\* stream req.Body refers to is left in (o is that stream)
copyHTTPRequestBody(r, o) ==
    IF r.Body = "nil" THEN [body |-> NilBuf, err |-> NilErr, orig |-> o]
    ELSE IF o.readFails THEN [body |-> NilBuf, err |-> errRead, orig |-> o]
    ELSE IF o.closeFails
         THEN [body |-> NilBuf, err |-> errClose,
               orig |-> [o EXCEPT !.pos = Len(o.data), !.closed = o.closed + 1]]
    ELSE [body |-> Buf(Remaining(o)), err |-> NilErr,
          orig |-> [o EXCEPT !.pos = Len(o.data), !.closed = o.closed + 1]]

\* a mutant of newNopCloserFromBody: one reader is made for the first attempt
\* and handed out again, where it was left, for the later ones
newNopCloserFromBody_shared(b) ==
    IF b.isNil THEN NilStream
    ELSE IF view.isNil THEN Stream(b.bytes, FALSE, FALSE)
    ELSE view

\* a mutant of newNopCloserFromBody: a reader is made for a nil body too
newNopCloserFromBody_neverNil(b) == Stream(b.bytes, FALSE, FALSE)

\* client.go:251-257: io.NopCloser(bytes.NewReader(body)), nil for a nil body
newNopCloserFromBody(b) ==
    IF b.isNil THEN NilStream ELSE Stream(b.bytes, FALSE, FALSE)

(***************************************************************************)
(* The executor, the callback, the retriers and the result of Do.          *)
(***************************************************************************)
StatusFound == 302

\* what one invocation of the executor (c.client.Do) can return: a response
\* with some status and no error, no response and a transport error, or, as
\* http.Client does when CheckRedirect fails, a response together with an error
ExecutorOutcomes(id) ==
    {[res |-> Response(s, id), err |-> NilErr] : s \in Statuses}
        \cup {[res |-> NilRes, err |-> errFailRequest],
              [res |-> Response(StatusFound, id), err |-> errRedirect]}

\* a mutant of Callback: the response of the first attempt is kept
Callback_keepFirst(prev, out, policy) ==
    [res |-> IF prev.isNil THEN out.res ELSE prev, err |-> out.err,
     evaluated |-> IF out.err # NilErr THEN <<>> ELSE <<out.res.StatusCode>>,
     signal |-> IF out.err # NilErr THEN out.err
                ELSE IF ApplyPolicy(policy, out.res.StatusCode) THEN ErrStatusCode
                ELSE NilErr]

\* a mutant of Callback: a transport error is not reported to the retrier
Callback_swallow(prev, out, policy) ==
    [res |-> out.res, err |-> out.err,
     evaluated |-> IF out.err # NilErr THEN <<>> ELSE <<out.res.StatusCode>>,
     signal |-> IF out.err # NilErr THEN NilErr
                ELSE IF ApplyPolicy(policy, out.res.StatusCode) THEN ErrStatusCode
                ELSE NilErr]

\* a mutant of Callback: the test of the retry policy is inverted
Callback_inverted(prev, out, policy) ==
    [res |-> out.res, err |-> out.err,
     evaluated |-> IF out.err # NilErr THEN <<>> ELSE <<out.res.StatusCode>>,
     signal |-> IF out.err # NilErr THEN out.err
                ELSE IF ~ApplyPolicy(policy, out.res.StatusCode) THEN ErrStatusCode
                ELSE NilErr]

\* a mutant of Callback: a retryable status is not reported to the retrier
Callback_noPolicy(prev, out, policy) ==
    [res |-> out.res, err |-> out.err,
     evaluated |-> <<>>,
     signal |-> IF out.err # NilErr THEN out.err ELSE NilErr]

\* a mutant of Callback: the error test reads the error left by the attempt
\* before instead of the one the executor just returned
Callback_stale(prev, out, policy) ==
    [res |-> out.res, err |-> IF err # NilErr THEN err ELSE out.err,
     evaluated |-> IF err # NilErr \/ out.err # NilErr THEN <<>> ELSE <<out.res.StatusCode>>,
     signal |-> IF err # NilErr THEN err
                ELSE IF out.err # NilErr THEN out.err
                ELSE IF ApplyPolicy(policy, out.res.StatusCode) THEN ErrStatusCode
                ELSE NilErr]

\* a mutant of Callback: the retry policy is asked before the error is looked at
Callback_eager(prev, out, policy) ==
    [res |-> out.res, err |-> out.err,
     evaluated |-> <<out.res.StatusCode>>,
     signal |-> IF out.err # NilErr THEN out.err
                ELSE IF ApplyPolicy(policy, out.res.StatusCode) THEN ErrStatusCode
                ELSE NilErr]

\* client.go:213-222: the callback after the executor returned out; prev is
\* the value of res before: the new values of res and err, the status codes
\* c.retryPolicy was called with, and the error the callback returns to the
\* retrier
Callback(prev, out, policy) ==
    [res |-> out.res, err |-> out.err,
     evaluated |-> IF out.err # NilErr THEN <<>> ELSE <<out.res.StatusCode>>,
     signal |-> IF out.err # NilErr THEN out.err
                ELSE IF ApplyPolicy(policy, out.res.StatusCode) THEN ErrStatusCode
                ELSE NilErr]

\* a mutant of mockRetrierStep: the loop runs once more than maxAttempts
mockRetrierStep_extra(r, a, signal) ==
    IF signal = NilErr THEN [again |-> FALSE, err |-> NilErr]
    ELSE IF a < r.maxAttempts THEN [again |-> TRUE, err |-> NilErr]
    ELSE [again |-> FALSE, err |-> signal]

\* the test file's mockRetrier.Do, lines 31-42, after fn returned signal in
\* iteration a of its loop: whether fn is called again, and else the error
\* returned
mockRetrierStep(r, a, signal) ==
    IF signal = NilErr THEN [again |-> FALSE, err |-> NilErr]
    ELSE IF a + 1 < r.maxAttempts THEN [again |-> TRUE, err |-> NilErr]
    ELSE [again |-> FALSE, err |-> signal]

\* client.go:358-360: noRetry.Do returns fn(ctx)
noRetryStep(r, a, signal) == [again |-> FALSE, err |-> signal]

\* the context-checking strategy after fn returned signal: as mockRetrier
ctxRetrierStep(r, a, signal) ==
    IF signal = NilErr THEN [again |-> FALSE, err |-> NilErr]
    ELSE IF a + 1 < r.maxAttempts THEN [again |-> TRUE, err |-> NilErr]
    ELSE [again |-> FALSE, err |-> signal]

RetrierStep(r, a, signal) ==
    IF r.type = "noRetry" THEN noRetryStep(r, a, signal)
    ELSE IF r.type = "ctxRetrier" THEN ctxRetrierStep(r, a, signal)
    ELSE mockRetrierStep(r, a, signal)

\* a mutant of DoResult: the status marker is returned like any other error
DoResult_noMarker(r, e) ==
    IF e # NilErr THEN Return(NilRes, e) ELSE Return(r, NilErr)

\* a mutant of DoResult: the response is returned next to the error
DoResult_both(r, e) ==
    IF e # NilErr /\ ~ErrorsIs(e, ErrStatusCode) THEN Return(r, e)
    ELSE Return(r, NilErr)

\* a mutant of DoResult: a response that was retained is returned whatever
\* the error
DoResult_keepRes(r, e) ==
    IF e # NilErr /\ ~ErrorsIs(e, ErrStatusCode) /\ r.isNil THEN Return(NilRes, e)
    ELSE Return(r, NilErr)

\* a mutant of DoResult: the error is wrapped in a new one
DoResult_wrap(r, e) ==
    IF e # NilErr /\ ~ErrorsIs(e, ErrStatusCode)
    THEN Return(NilRes, <<Link("request failed", TRUE)>> \o e)
    ELSE Return(r, NilErr)

\* client.go:224-228: what Do returns when the retrier returned e and res is r
DoResult(r, e) ==
    IF e # NilErr /\ ~ErrorsIs(e, ErrStatusCode) THEN Return(NilRes, e)
    ELSE Return(r, NilErr)

(***************************************************************************)
(* Contexts handed around, and the bodies of the responses.                *)
(***************************************************************************)
\* a context a retry strategy derives for one attempt
perAttemptContext == "perAttempt"

\* the context the retrier r, called with ctx, hands the callback: noRetry.Do
\* (client.go:358-360) and mockRetrier.Do (test file, line 34) call fn(ctx);
\* the context-checking strategy hands a context of its own for each attempt
HandedContext(r, ctx) ==
    IF r.type = "ctxRetrier" THEN perAttemptContext ELSE ctx

\* a mutant of CallbackRequest: the request is sent with the context handed
\* to the callback
CallbackRequest_handedCtx(r, ctx, v) ==
    [r EXCEPT !.Body = IF v.isNil THEN "nil" ELSE "view", !.ctx = ctx]

\* a mutant of CallbackRequest: the request is built anew for the attempt
\* and its headers are not carried over
CallbackRequest_rebuilt(r, ctx, v) ==
    [Request(r.Method, r.URL, r.ctx, IF v.isNil THEN "nil" ELSE "view")
        EXCEPT !.Header = NilHeader]

\* client.go:209-213: the request the callback, handed ctx by the retrier,
\* passes to the executor after it set req.Body to v; the parameter of
\* func(context.Context) has no name, so ctx is not used
CallbackRequest(r, ctx, v) ==
    [r EXCEPT !.Body = IF v.isNil THEN "nil" ELSE "view"]

\* the body of a response as the executor returns it: not read, not closed;
\* there is none when there is no response
NoResBody == [isNil |-> TRUE, read |-> FALSE, closed |-> 0]
FreshResBody == [isNil |-> FALSE, read |-> FALSE, closed |-> 0]
ResBodyOf(out) == IF out.res.isNil THEN NoResBody ELSE FreshResBody

\* the bodies bs after those of the responses in ids were read to the end
\* and closed
Drain(bs, ids) ==
    [i \in DOMAIN bs |->
        IF i \in ids /\ ~bs[i].isNil
        THEN [bs[i] EXCEPT !.read = TRUE, !.closed = @ + 1]
        ELSE bs[i]]

\* a mutant of DrainedByCallback: the response of the attempt before is
\* released when a new one replaces it
DrainedByCallback_replaced(prev, out) == IF prev.isNil THEN {} ELSE {prev.id}

\* client.go:213-222: the invocations whose response body the callback reads
\* or closes, prev being the value of res before and out what the executor
\* returned: the callback touches res.StatusCode only
DrainedByCallback(prev, out) == {}

\* client.go:224-228: the invocations whose response body Do reads or closes
\* before it returns, r being res and e the error of the retrier
DrainedByDo(r, e) == {}

(***************************************************************************)
(* The steps of Client.Do.                                                 *)
(***************************************************************************)
\* io.ReadAll(req.Body), client.go:238, returns: the stream reaches its end
\* or fails
ReadAllReturns(r, o) == r.Body = "nil" \/ ~o.readBlocks

\* client.go:203-207: the body is captured; Do returns at once when that fails
CopyBody ==
    LET c == copyHTTPRequestBody(req, BodyOf(req, orig, view))
    IN  /\ pc = "Do"
        /\ ReadAllReturns(req, BodyOf(req, orig, view))
        /\ UNCHANGED harnessVars
        /\ IF req.Body = "view"
           THEN /\ view' = c.orig
                /\ UNCHANGED orig
           ELSE /\ orig' = c.orig
                /\ UNCHANGED view
        /\ body' = c.body
        /\ err' = c.err
        /\ IF c.err # NilErr
           THEN /\ ret' = Return(NilRes, c.err)
                /\ pc' = "done"
                /\ UNCHANGED <<retrierCalls, retrierCtx>>
           ELSE /\ pc' = "retrier"
                /\ retrierCalls' = retrierCalls + 1
                /\ retrierCtx' = req.ctx
                /\ UNCHANGED ret
        /\ UNCHANGED <<client, call, req, res, attempt, count, observed, outcomes,
                       leftover, handed, sent, signals, policyCalls, resBodies>>

\* a mutant of Attempt: the retrier starts an attempt while the executor is
\* still at work on the one before
Attempt_parallel ==
    LET v   == newNopCloserFromBody(body)
        ctx == HandedContext(client.retrier, retrierCtx)
        r   == CallbackRequest(req, ctx, v)
    IN  /\ pc \in {"retrier", "executor"}
        /\ count < MaxOf(client.retrier)
        /\ UNCHANGED harnessVars
        /\ view' = v
        /\ req' = r
        /\ count' = count + 1
        /\ observed' = Append(observed, Readable(r, orig, v))
        /\ handed' = Append(handed, ctx)
        /\ sent' = Append(sent, r)
        /\ pc' = "executor"
        /\ UNCHANGED <<client, call, orig, body, res, err, attempt, retrierCalls,
                       outcomes, leftover, retrierCtx, signals, policyCalls,
                       resBodies, ret>>

\* the retrier calls the callback: client.go:211-213, the callback installs a
\* new reader in req.Body and calls the executor, which sees the request
Attempt ==
    LET v   == newNopCloserFromBody(body)
        ctx == HandedContext(client.retrier, retrierCtx)
        r   == CallbackRequest(req, ctx, v)
    IN  /\ pc = "retrier"
        /\ UNCHANGED harnessVars
        /\ view' = v
        /\ req' = r
        /\ count' = count + 1
        /\ observed' = Append(observed, Readable(r, orig, v))
        /\ handed' = Append(handed, ctx)
        /\ sent' = Append(sent, r)
        /\ pc' = "executor"
        /\ UNCHANGED <<client, call, orig, body, res, err, attempt, retrierCalls,
                       outcomes, leftover, retrierCtx, signals, policyCalls,
                       resBodies, ret>>

\* the stream s after the executor read k more bytes of it and, when cl holds,
\* closed it (Close of a NopCloser does nothing to the reader)
ReadSome(s, k, cl) ==
    IF s.isNil THEN s
    ELSE [s EXCEPT !.pos = s.pos + k, !.closed = s.closed + (IF cl THEN 1 ELSE 0)]

\* how many of the n bytes left of a body an executor reads: none, one, or
\* all of them
ReadAmounts(n) == {k \in 0..n : k <= 1 \/ k = n}

\* the executor reads some of the body, returns, and the callback and the
\* retrier act on what it returned: client.go:213-222 and the retrier's loop
ExecutorReturn ==
    \E out \in ExecutorOutcomes(count), cl \in BOOLEAN,
       k \in ReadAmounts(Len(Remaining(BodyOf(req, orig, view)))) :
        LET cb   == Callback(res, out, client.retryPolicy)
            step == RetrierStep(client.retrier, attempt, cb.signal)
        IN  /\ pc = "executor"
            /\ UNCHANGED harnessVars
            /\ IF req.Body = "view"
               THEN /\ view' = ReadSome(view, k, cl)
                    /\ UNCHANGED orig
               ELSE /\ orig' = ReadSome(orig, k, cl)
                    /\ UNCHANGED view
            /\ outcomes' = Append(outcomes, out)
            /\ leftover' = (leftover \/ (cl /\ k > 0 /\ k < Len(Remaining(BodyOf(req, orig, view)))))
            /\ res' = cb.res
            /\ signals' = Append(signals, cb.signal)
            /\ policyCalls' = policyCalls \o cb.evaluated
            /\ resBodies' = Drain(Append(resBodies, ResBodyOf(out)),
                                  DrainedByCallback(res, out))
            /\ IF step.again
               THEN /\ attempt' = attempt + 1
                    /\ err' = cb.err
                    /\ pc' = "retrier"
               ELSE /\ err' = step.err
                    /\ pc' = "return"
                    /\ UNCHANGED attempt
            /\ UNCHANGED <<client, call, req, body, count, retrierCalls, observed,
                           retrierCtx, handed, sent, ret>>

\* the context-checking strategy finds, between two attempts, the context
\* Do passed to it (req.Context(), client.go:209) cancelled and returns its
\* error without calling the callback again
RetrierAbort ==
    /\ pc = "retrier"
    /\ UNCHANGED harnessVars
    /\ client.retrier.type = "ctxRetrier"
    /\ attempt >= 1
    /\ req.ctx = "cancelled"
    /\ err' = errContextCanceled
    /\ pc' = "return"
    /\ UNCHANGED <<client, call, req, orig, view, body, res, attempt, count,
                   retrierCalls, observed, outcomes, leftover, historyVars, ret>>

\* a mutant of DoReturn: Do waits until there is a response to return
DoReturn_wait ==
    /\ pc = "return"
    /\ ~res.isNil
    /\ UNCHANGED harnessVars
    /\ ret' = DoResult(res, err)
    /\ resBodies' = Drain(resBodies, DrainedByDo(res, err))
    /\ pc' = "done"
    /\ UNCHANGED <<client, call, req, orig, view, body, res, err, attempt, count,
                   retrierCalls, observed, outcomes, leftover, retrierCtx, handed,
                   sent, signals, policyCalls>>

\* client.go:224-228
DoReturn ==
    /\ pc = "return"
    /\ UNCHANGED harnessVars
    /\ ret' = DoResult(res, err)
    /\ resBodies' = Drain(resBodies, DrainedByDo(res, err))
    /\ pc' = "done"
    /\ UNCHANGED <<client, call, req, orig, view, body, res, err, attempt, count,
                   retrierCalls, observed, outcomes, leftover, retrierCtx, handed,
                   sent, signals, policyCalls>>

Next ==
    \/ Get
    \/ Post
    \/ Put
    \/ Patch
    \/ Delete
    \/ DoCall
    \/ CopyBody
    \/ Attempt
    \/ ExecutorReturn
    \/ RetrierAbort
    \/ DoReturn

Spec == Init /\ [][Next]_vars

\* what the progress of a Do call rests on: a read of the body that can
\* return does, the retrier goes on to its next attempt or gives up, every
\* call of the executor returns, and Do runs on to its return statement
Fairness ==
    /\ WF_vars(CopyBody)
    /\ WF_vars(Attempt \/ RetrierAbort)
    /\ WF_vars(ExecutorReturn)
    /\ WF_vars(DoReturn)

\* the clients termination is checked for: any executor, any policy, and a
\* retrier of at most MaxLiveAttempts attempts
LiveOptions ==
    {o \in Options : o.opt = "WithRetrier" => o.retrier.maxAttempts <= MaxLiveAttempts}

InitLive ==
    /\ Init
    /\ client \in {NewClient(opts) : opts \in {ol \in OptionLists :
                                                  \A i \in 1..Len(ol) : ol[i] \in LiveOptions}}

SpecLive == InitLive /\ [][Next]_vars /\ Fairness

TypeOK ==
    /\ pc \in {"idle", "Do", "retrier", "executor", "return", "done"}
    /\ count \in 0..MaxAttempts
    /\ attempt \in 0..MaxAttempts
    /\ Len(outcomes) <= count
    /\ Len(observed) = count
    /\ ret.set = (pc = "done")

(***************************************************************************)
(* Vocabulary of the properties.                                           *)
(***************************************************************************)
Done == pc = "done"

\* Client.Do was entered (the verb helper, if any, built its request)
DoEntered == ~req.isNil

\* the status codes the policy named p marks retryable
RetryableStatuses(p) ==
    IF p = "defaultRetryPolicy" THEN {} ELSE {StatusInternalServerError}

IsTransportFailure(out) == out.err # NilErr
IsRetryableStatus(out) ==
    out.err = NilErr /\ out.res.StatusCode \in RetryableStatuses(client.retryPolicy)
IsFinalStatus(out) ==
    out.err = NilErr /\ out.res.StatusCode \notin RetryableStatuses(client.retryPolicy)

LastOutcome == outcomes[Len(outcomes)]

(***************************************************************************)
(* C1: when every attempt of a Do call returned a response with a          *)
(* retryable status and the retrier made its maximum number of attempts,   *)
(* Do returns the response of the last attempt, with its retryable status, *)
(* and a nil error.                                                        *)
(***************************************************************************)
C1_AllRetryableReturnsLast ==
    (/\ Done
     /\ count = MaxOf(client.retrier)
     /\ Len(outcomes) = count
     /\ \A i \in 1..Len(outcomes) : IsRetryableStatus(outcomes[i]))
        => /\ ret = Return(LastOutcome.res, NilErr)
           /\ ret.res.id = count
           /\ ret.res.StatusCode \in RetryableStatuses(client.retryPolicy)

C1_Witness ==
    /\ Done
    /\ count = MaxOf(client.retrier)
    /\ count >= 2
    /\ \A i \in 1..Len(outcomes) : IsRetryableStatus(outcomes[i])
    /\ ret = Return(Response(StatusInternalServerError, count), NilErr)

(***************************************************************************)
(* C2: when the executor returned a transport failure on every attempt up  *)
(* to the retrier's maximum, Do returns a nil response and the transport   *)
(* error of the last attempt, which is not the marker ErrStatusCode.       *)
(***************************************************************************)
C2_AllTransportFailures ==
    (/\ Done
     /\ count = MaxOf(client.retrier)
     /\ Len(outcomes) = count
     /\ \A i \in 1..Len(outcomes) : IsTransportFailure(outcomes[i]))
        => /\ ret.res = NilRes
           /\ ret.err = LastOutcome.err
           /\ ret.err # NilErr
           /\ ~ErrorsIs(ret.err, ErrStatusCode)

C2_Witness ==
    /\ Done
    /\ count = MaxOf(client.retrier)
    /\ count >= 2
    /\ \A i \in 1..Len(outcomes) : IsTransportFailure(outcomes[i])
    /\ ret = Return(NilRes, errFailRequest)

(***************************************************************************)
(* C3: when the first K attempts ended in transport failures, the attempts *)
(* after them (if any) returned retryable statuses, and an attempt within  *)
(* the retrier's maximum then returned a non-retryable status, Do returns  *)
(* that response with a nil error.                                         *)
(***************************************************************************)
C3_SuccessAfterFailures ==
    \A i \in 1..Len(outcomes) :
        (/\ Done
         /\ i <= MaxOf(client.retrier)
         /\ IsFinalStatus(outcomes[i])
         /\ \E K \in 0..(i - 1) :
                /\ \A j \in 1..K : IsTransportFailure(outcomes[j])
                /\ \A j \in (K + 1)..(i - 1) : IsRetryableStatus(outcomes[j]))
            => ret = Return(outcomes[i].res, NilErr)

C3_Witness ==
    /\ Done
    /\ Len(outcomes) = 3
    /\ IsTransportFailure(outcomes[1])
    /\ IsRetryableStatus(outcomes[2])
    /\ IsFinalStatus(outcomes[3])
    /\ ret = Return(Response(StatusOK, 3), NilErr)

(***************************************************************************)
(* C4: for a request with a non-nil body, the bytes the executor can read  *)
(* from req.Body are on every attempt the content of the original body,    *)
(* whatever the executor read or closed on earlier attempts.               *)
(***************************************************************************)
C4_SameBodyEveryAttempt ==
    ~call.content.isNil =>
        \A i \in 1..Len(observed) : observed[i] = call.content

C4_Witness ==
    /\ pc = "executor"
    /\ count >= 2
    /\ leftover
    /\ Len(call.content.bytes) >= 2
    /\ observed[count] = call.content

(***************************************************************************)
(* C5 as stated: with a retry policy that is false for every status code,  *)
(* Do makes exactly one attempt, whatever the retrier's maximum.           *)
(***************************************************************************)
C5_Original ==
    (Done /\ retrierCalls >= 1 /\ client.retryPolicy = "defaultRetryPolicy")
        => count = 1

(***************************************************************************)
(* C5 amended: with a retry policy that is false for every status code,    *)
(* the first attempt that yields a response is the last one, so every      *)
(* attempt but the last ended in a transport failure, and Do makes exactly *)
(* one attempt when the first attempt yields a response, whatever the      *)
(* retrier's maximum.                                                      *)
(***************************************************************************)
C5_OneAttemptPerResponse ==
    (Done /\ retrierCalls >= 1 /\ client.retryPolicy = "defaultRetryPolicy")
        => /\ count >= 1
           /\ Len(outcomes) = count
           /\ \A i \in 1..(count - 1) : IsTransportFailure(outcomes[i])
           /\ (~IsTransportFailure(outcomes[1]) => count = 1)

C5_Witness ==
    /\ Done
    /\ client.retryPolicy = "defaultRetryPolicy"
    /\ MaxOf(client.retrier) >= 2
    /\ outcomes = <<[res |-> Response(StatusInternalServerError, 1), err |-> NilErr]>>
    /\ count = 1

Scripted(N, i) ==
    [res |-> Response(IF i < N THEN StatusInternalServerError ELSE StatusOK, i),
     err |-> NilErr]

C7_ServerErrorsThenOK ==
    \A N \in 1..MaxAttempts :
        (/\ Done
         /\ retrierCalls >= 1
         /\ client.retryPolicy = "serverErrorPolicy"
         /\ client.retrier = mockRetrier(N)
         /\ Len(outcomes) <= N
         /\ \A i \in 1..Len(outcomes) : outcomes[i] = Scripted(N, i))
            => /\ count = N
               /\ Len(outcomes) = N
               /\ ret = Return(Response(StatusOK, N), NilErr)

C7_Witness ==
    /\ Done
    /\ client.retryPolicy = "serverErrorPolicy"
    /\ client.retrier = mockRetrier(4)
    /\ outcomes = [i \in 1..4 |-> Scripted(4, i)]
    /\ count = 4
    /\ ret = Return(Response(StatusOK, 4), NilErr)

(***************************************************************************)
(* C8: a Do call returns either a non-nil response with a nil error or a   *)
(* nil response with a non-nil error; never (nil, nil) and never a         *)
(* response together with an error.                                        *)
(***************************************************************************)
C8_ResponseXorError ==
    (Done /\ DoEntered) =>
        \/ (~ret.res.isNil /\ ret.err = NilErr)
        \/ (ret.res.isNil /\ ret.err # NilErr)

\* the executor returned a response together with an error, and Do returned
\* the error alone
C8_Witness ==
    /\ Done
    /\ DoEntered
    /\ ~res.isNil
    /\ err = errRedirect
    /\ ret = Return(NilRes, errRedirect)

(***************************************************************************)
(* C9: no Do call and no verb helper returns an error that is or wraps     *)
(* ErrStatusCode.                                                          *)
(***************************************************************************)
C9_MarkerNeverReturned ==
    Done => ~ErrorsIs(ret.err, ErrStatusCode)

\* the retrier ended with the marker and Do returned the response, no error
C9_Witness ==
    /\ Done
    /\ err = ErrStatusCode
    /\ count >= 2
    /\ ret = Return(res, NilErr)
    /\ ~res.isNil

(***************************************************************************)
(* C10: when reading the original body fails or closing it fails, Do       *)
(* returns (nil, that error) with no buffer, and neither the retrier nor   *)
(* the executor is invoked.                                                *)
(***************************************************************************)
C10_CaptureFailureIsFatal ==
    (/\ DoEntered
     /\ req.Body # "nil"
     /\ pc # "Do"
     /\ (orig.readFails \/ orig.closeFails))
        => /\ Done
           /\ ret = Return(NilRes, IF orig.readFails THEN errRead ELSE errClose)
           /\ body = NilBuf
           /\ retrierCalls = 0
           /\ count = 0

C10_Witness ==
    /\ Done
    /\ DoEntered
    /\ orig.closeFails
    /\ orig.closed = 1
    /\ orig.pos = Len(orig.data)
    /\ body = NilBuf
    /\ ret = Return(NilRes, errClose)
    /\ retrierCalls = 0

(***************************************************************************)
(* C11: in every Do call the body is captured before any attempt and the   *)
(* original stream is closed right after the capture: when the executor is *)
(* invoked the original stream has been read to its end and closed once,   *)
(* req.Body does not refer to it on any attempt, and after the capture the *)
(* original stream is never read or closed again.                          *)
(***************************************************************************)
C11_CaptureBeforeAttempts ==
    /\ [](count >= 1 /\ ~orig.isNil
            => /\ orig.closed = 1
               /\ orig.pos = Len(orig.data)
               /\ body = call.content
               /\ req.Body # "orig")
    /\ [][(pc \notin {"idle", "Do"}) => (orig' = orig)]_vars

C11_Witness ==
    /\ pc = "executor"
    /\ count >= 2
    /\ Len(orig.data) >= 1
    /\ orig.closed = 1
    /\ orig.pos = Len(orig.data)
    /\ req.Body = "view"

(***************************************************************************)
(* C12: a client built by NewClient without a retrier option and without a *)
(* policy option calls the callback once and retries no status: Do invokes *)
(* the executor exactly once and returns its response, whatever the        *)
(* status, with a nil error, or nil and its transport error.               *)
(***************************************************************************)
\* the clients NewClient builds when neither WithRetrier nor WithRetryPolicy
\* is given
DefaultedClients ==
    {NewClient(<<>>), NewClient(<<WithHTTPClient("mockHTTPClient")>>)}

C12_DefaultsMakeOneAttempt ==
    (Done /\ retrierCalls >= 1 /\ client \in DefaultedClients)
        => /\ count = 1
           /\ Len(outcomes) = 1
           /\ ret = (IF outcomes[1].err = NilErr
                     THEN Return(outcomes[1].res, NilErr)
                     ELSE Return(NilRes, outcomes[1].err))

\* the default client got a 500 and returned it
C12_Witness ==
    /\ Done
    /\ client = [client |-> "http.Client", retrier |-> noRetry,
                 retryPolicy |-> "defaultRetryPolicy"]
    /\ count = 1
    /\ ret = Return(Response(StatusInternalServerError, 1), NilErr)

(***************************************************************************)
(* C13: the request a verb helper hands to the executor has the helper's   *)
(* own method, the given URL and exactly the given headers; with Post, Put *)
(* and Patch the executor can read the caller's body content on every      *)
(* attempt, with Get and Delete the request has no body.                   *)
(***************************************************************************)
C13_HelperBuildsRequest ==
    (call.fn \in Methods /\ count >= 1)
        => /\ req.Method = call.fn
           /\ req.URL = call.url
           /\ req.Header = call.headers
           /\ \A i \in 1..Len(observed) :
                /\ observed[i] = call.content
                /\ (call.fn \in {"GET", "DELETE"} => observed[i] = NilBuf)

C13_Witness ==
    /\ pc = "executor"
    /\ count >= 2
    /\ call.fn = "PATCH"
    /\ call.headers = dummyHeader
    /\ req = [isNil |-> FALSE, Method |-> "PATCH", URL |-> dummyURL,
              Header |-> dummyHeader, ctx |-> "background", Body |-> "view"]
    /\ observed = [i \in 1..count |-> Buf(Data(MaxBodyLen))]

(***************************************************************************)
(* C14: when the construction of the request fails in a verb helper (a     *)
(* malformed URL, a nil context), the helper returns nil and a             *)
(* RequestCreationError holding the cause; Do, the retrier and the         *)
(* executor are not reached, so nothing is retried.                        *)
(***************************************************************************)
C14_CreationFailureReturnedDirectly ==
    (call.fn \in Methods /\ (call.ctx = "nil" \/ call.url = badURL))
        => /\ Done
           /\ ret.res = NilRes
           /\ IsRequestCreationError(ret.err)
           /\ Tail(ret.err) = (IF call.ctx = "nil" THEN errNilContext ELSE errParseURL)
           /\ ~DoEntered
           /\ orig = NilStream
           /\ retrierCalls = 0
           /\ count = 0

C14_Witness ==
    /\ Done
    /\ call.fn = "GET"
    /\ call.ctx = "background"
    /\ call.url = badURL
    /\ ret = Return(NilRes, <<Link("RequestCreationError", FALSE)>> \o errParseURL)
    /\ retrierCalls = 0
    /\ count = 0

(***************************************************************************)
(* C15: for a request without a body the capture returns nil and no error  *)
(* and the replay of nil is nil: Do goes on to the retrier, and on every   *)
(* attempt the executor receives the request with a nil body.              *)
(***************************************************************************)
C15_NoBodyStaysNil ==
    (DoEntered /\ call.content.isNil /\ pc \notin {"idle", "Do"})
        => /\ body = NilBuf
           /\ retrierCalls = 1
           /\ req.Body = "nil"
           /\ view = NilStream
           /\ \A i \in 1..Len(observed) : observed[i] = NilBuf
           /\ (Done => count >= 1 /\ ret = DoResult(res, err))

C15_Witness ==
    /\ Done
    /\ call.fn = "Do"
    /\ call.content = NilBuf
    /\ count >= 2
    /\ observed = [i \in 1..count |-> NilBuf]
    /\ ~ret.res.isNil

(***************************************************************************)
(* The replay harness: copyHTTPRequestBody is applied once to a request    *)
(* whose body stream is at any position, then newNopCloserFromBody is      *)
(* applied to the captured buffer any number of times, and the readers it  *)
(* returned are read and closed in any order.  The readers are objects:    *)
(* views is the heap of them, handles[i] is the one call i returned.       *)
(***************************************************************************)
\* the body streams of the harness: at any position of their content
PositionedStreams ==
    {[s EXCEPT !.pos = p] : s \in BodyStreams, p \in 0..MaxBodyLen}

InitReplay ==
    /\ client = NewClient(<<>>)
    /\ pc = "capture"
    /\ orig \in {s \in PositionedStreams : s.pos <= Len(s.data)} \cup {NilStream}
    /\ call = [fn |-> "Do", ctx |-> "background", url |-> dummyURL,
               headers |-> dummyHeader, content |-> ContentOf(orig)]
    /\ req = [Request("POST", dummyURL, "background", IF orig.isNil THEN "nil" ELSE "orig")
                EXCEPT !.Header = dummyHeader]
    /\ view = NilStream
    /\ body = NilBuf
    /\ res = NilRes
    /\ err = NilErr
    /\ attempt = 0
    /\ count = 0
    /\ retrierCalls = 0
    /\ observed = <<>>
    /\ outcomes = <<>>
    /\ leftover = FALSE
    /\ views = <<>>
    /\ handles = <<>>
    /\ retrierCtx = "nil"
    /\ handed = <<>>
    /\ sent = <<>>
    /\ signals = <<>>
    /\ policyCalls = <<>>
    /\ resBodies = <<>>
    /\ prior = NoPrior
    /\ calls = <<>>
    /\ given = <<>>
    /\ ret = NoRet

harnessFrame == <<client, call, req, view, res, attempt, count, retrierCalls,
                  observed, outcomes, leftover, historyVars, prior, calls, given, ret>>

\* client.go:204: body, err := copyHTTPRequestBody(req)
Capture ==
    LET c == copyHTTPRequestBody(req, orig)
    IN  /\ pc = "capture"
        /\ ReadAllReturns(req, orig)
        /\ orig' = c.orig
        /\ body' = c.body
        /\ err' = c.err
        /\ pc' = (IF c.err # NilErr THEN "failed" ELSE "replay")
        /\ UNCHANGED <<harnessFrame, views, handles>>

\* a mutant of Replay: the reader made by the first call is returned again by
\* the later ones
Replay_shared ==
    LET v == newNopCloserFromBody(body)
    IN  /\ pc = "replay"
        /\ Len(handles) < MaxViews
        /\ IF v.isNil
           THEN /\ handles' = Append(handles, 0)
                /\ UNCHANGED views
           ELSE IF views = <<>>
           THEN /\ views' = Append(views, v)
                /\ handles' = Append(handles, Len(views) + 1)
           ELSE /\ handles' = Append(handles, 1)
                /\ UNCHANGED views
        /\ UNCHANGED <<harnessFrame, pc, orig, body, err>>

\* client.go:211 with 251-257: newNopCloserFromBody(body) returns nil or a
\* new reader over the buffer
Replay ==
    LET v == newNopCloserFromBody(body)
    IN  /\ pc = "replay"
        /\ Len(handles) < MaxViews
        /\ IF v.isNil
           THEN /\ handles' = Append(handles, 0)
                /\ UNCHANGED views
           ELSE /\ views' = Append(views, v)
                /\ handles' = Append(handles, Len(views) + 1)
        /\ UNCHANGED <<harnessFrame, pc, orig, body, err>>

\* the holder of the reader call h returned reads k more bytes of it
ReadView ==
    \E h \in 1..Len(handles) :
        /\ pc = "replay"
        /\ handles[h] # 0
        /\ \E k \in 1..Len(Remaining(views[handles[h]])) :
               views' = [views EXCEPT ![handles[h]] = ReadSome(@, k, FALSE)]
        /\ UNCHANGED <<harnessFrame, pc, orig, body, err, handles>>

\* the holder of the reader call h returned closes it
CloseView ==
    \E h \in 1..Len(handles) :
        /\ pc = "replay"
        /\ handles[h] # 0
        /\ views[handles[h]].closed = 0
        /\ views' = [views EXCEPT ![handles[h]] = ReadSome(@, 0, TRUE)]
        /\ UNCHANGED <<harnessFrame, pc, orig, body, err, handles>>

NextReplay ==
    \/ Capture
    \/ Replay
    \/ ReadView
    \/ CloseView

SpecReplay == InitReplay /\ [][NextReplay]_vars

\* what the holder of the reader call h returned gets by reading it to the
\* end, in heap vs
Yields(vs, hs, h) == IF hs[h] = 0 THEN NilBuf ELSE Buf(Remaining(vs[hs[h]]))

\* that reader is at its start and not closed
Untouched(vs, hs, h) == hs[h] = 0 \/ (vs[hs[h]].pos = 0 /\ vs[hs[h]].closed = 0)

(***************************************************************************)
(* C16: newNopCloserFromBody can be called any number of times on one      *)
(* captured buffer and returns independent readers: a reader that has not  *)
(* been read yields exactly the captured bytes, which are the content the  *)
(* original stream had; every reader is over those bytes; and a step that  *)
(* reads or closes one reader changes neither what any other reader yields *)
(* nor the buffer.                                                         *)
(***************************************************************************)
C16_ReplayIndependent ==
    /\ [](pc = "replay"
            => /\ body = call.content
               /\ \A h \in 1..Len(handles) :
                    /\ (handles[h] = 0) = body.isNil
                    /\ handles[h] # 0 => views[handles[h]].data = call.content.bytes
                    /\ Untouched(views, handles, h) => Yields(views, handles, h) = call.content)
    /\ [][pc = "replay" =>
            /\ body' = body
            /\ \A h \in 1..Len(handles) :
                 \/ Yields(views', handles', h) = Yields(views, handles, h)
                 \/ \A g \in (1..Len(handles)) \ {h} :
                        Yields(views', handles', g) = Yields(views, handles, g)
            /\ (Len(handles') > Len(handles) =>
                    /\ Yields(views', handles', Len(handles')) = call.content
                    /\ \A g \in 1..Len(handles) :
                           Yields(views', handles', g) = Yields(views, handles, g))]_vars

\* three readers over the longest buffer: the first read to the end and
\* closed, the second read partly, the third untouched and yielding all
C16_Witness ==
    /\ pc = "replay"
    /\ body = Buf(Data(MaxBodyLen))
    /\ Len(handles) = 3
    /\ views[handles[1]].pos = MaxBodyLen
    /\ views[handles[1]].closed = 1
    /\ views[handles[2]].pos = 1
    /\ Yields(views, handles, 3) = Buf(Data(MaxBodyLen))

(***************************************************************************)
(* C17: RequestCreationError.Error() returns "request creation failed: "   *)
(* followed by the message of the wrapped cause, for every cause: for the  *)
(* causes the verb helpers meet, for the one of the test, and for a cause  *)
(* that wraps another error.                                               *)
(***************************************************************************)
\* the message of each cause, written out
CauseMessages ==
    {<<errNilContext, <<"net/http: nil Context">> >>,
     <<errParseURL, <<"op \"url\": ", "missing protocol scheme">> >>,
     <<errAnErrorMessage, <<"an error message">> >>,
     <<errClose, <<"cannot close">> >>,
     <<RequestCreationError(errAnErrorMessage),
       <<"request creation failed: ", "an error message">> >>}

C17_ErrorMessage ==
    /\ pc = "idle" =>
           \A cm \in CauseMessages :
               ErrorString(RequestCreationError(cm[1]))
                   = <<"request creation failed: ">> \o cm[2]
    /\ (Done /\ IsRequestCreationError(ret.err)) =>
           \E cm \in CauseMessages :
               /\ cm[1] = Tail(ret.err)
               /\ ErrorString(ret.err) = <<"request creation failed: ">> \o cm[2]

C17_Witness ==
    /\ Done
    /\ call.url = badURL
    /\ IsRequestCreationError(ret.err)
    /\ ErrorString(ret.err)
         = <<"request creation failed: ", "op \"url\": ", "missing protocol scheme">>

(***************************************************************************)
(* C18: with a retrier that returns nil at the first nil result of the     *)
(* callback and else the last error of the callback (noRetry, mockRetrier),*)
(* the result of Do is decided by the last attempt alone: a transport      *)
(* failure gives nil and that error, a retryable or a non-retryable status *)
(* gives that response and a nil error, whatever the earlier attempts      *)
(* returned.                                                               *)
(***************************************************************************)
LastErrorRetrier(r) == r.type \in {"noRetry", "mockRetrier"}

C18_LastAttemptDecides ==
    (Done /\ retrierCalls >= 1 /\ LastErrorRetrier(client.retrier))
        => /\ Len(outcomes) >= 1
           /\ ret = (IF IsTransportFailure(LastOutcome)
                     THEN Return(NilRes, LastOutcome.err)
                     ELSE Return(LastOutcome.res, NilErr))

\* a retryable response first, a transport failure last
C18_Witness ==
    /\ Done
    /\ client.retrier.type = "mockRetrier"
    /\ Len(outcomes) >= 2
    /\ IsRetryableStatus(outcomes[1])
    /\ LastOutcome = [res |-> NilRes, err |-> errFailRequest]
    /\ ret = Return(NilRes, errFailRequest)

(***************************************************************************)
(* C19: when the retrier ends with a non-nil error that is not the status  *)
(* marker, as a strategy does that gives up on a cancelled context between *)
(* two attempts, Do returns nil and that error, also when the last attempt *)
(* made had produced a response with a retryable status: the response      *)
(* retained in res is not returned.                                        *)
(***************************************************************************)
C19_OtherErrorDropsResponse ==
    (/\ Done
     /\ retrierCalls >= 1
     /\ err # NilErr
     /\ ~ErrorsIs(err, ErrStatusCode))
        => /\ ret.res = NilRes
           /\ ret.err = err

C19_Witness ==
    /\ Done
    /\ client.retrier.type = "ctxRetrier"
    /\ count >= 1
    /\ count < client.retrier.maxAttempts
    /\ IsRetryableStatus(LastOutcome)
    /\ res = LastOutcome.res
    /\ err = errContextCanceled
    /\ ret = Return(NilRes, errContextCanceled)

(***************************************************************************)
(* C20: every failure but the status marker reaches the caller unchanged:  *)
(* the error Do returns is the very value the retrier returned (with a     *)
(* last-error retrier the executor's transport error of the last attempt)  *)
(* or the very read or close error of the body capture; Do returns a nil   *)
(* error only when the retrier returned nil or the marker.                 *)
(***************************************************************************)
C20_ErrorsPropagateUnchanged ==
    (Done /\ DoEntered)
        => /\ (retrierCalls = 0 =>
                   /\ orig.readFails \/ orig.closeFails
                   /\ ret.err = (IF orig.readFails THEN errRead ELSE errClose))
           /\ (retrierCalls >= 1 =>
                   ret.err = (IF ErrorsIs(err, ErrStatusCode) THEN NilErr ELSE err))
           /\ (retrierCalls >= 1 /\ LastErrorRetrier(client.retrier)
                 /\ IsTransportFailure(LastOutcome) => ret.err = LastOutcome.err)

\* the executor's *url.Error comes back as it was returned
C20_Witness ==
    /\ Done
    /\ DoEntered
    /\ count >= 2
    /\ LastOutcome.err = errRedirect
    /\ err = errRedirect
    /\ ret.err = errRedirect

(***************************************************************************)
(* C21: in every attempt the callback returns to the retrier the           *)
(* executor's error when there is one, ErrStatusCode when there is none    *)
(* and the policy holds of the response's status, and nil when there is    *)
(* none and the policy does not hold; the retry policy is called exactly   *)
(* once for every attempt without an error, with that attempt's status,    *)
(* and not at all for an attempt that ended in a transport failure.        *)
(***************************************************************************)
RECURSIVE ResponseStatuses(_)
\* the status codes of the attempts among outs that ended without an error
ResponseStatuses(outs) ==
    IF outs = <<>> THEN <<>>
    ELSE (IF Head(outs).err = NilErr THEN <<Head(outs).res.StatusCode>> ELSE <<>>)
            \o ResponseStatuses(Tail(outs))

C21_CallbackSignals ==
    /\ Len(signals) = Len(outcomes)
    /\ \A i \in 1..Len(outcomes) :
           signals[i] = (IF IsTransportFailure(outcomes[i]) THEN outcomes[i].err
                         ELSE IF IsRetryableStatus(outcomes[i]) THEN ErrStatusCode
                         ELSE NilErr)
    /\ policyCalls = ResponseStatuses(outcomes)

\* a transport failure, a retryable status and a final status in one call
C21_Witness ==
    /\ Done
    /\ signals = <<errFailRequest, ErrStatusCode, NilErr>>
    /\ policyCalls = <<StatusInternalServerError, StatusOK>>
    /\ Len(outcomes) = 3
    /\ IsTransportFailure(outcomes[1])

(***************************************************************************)
(* C22: with a retrier of at most N >= 1 attempts that stops at the first  *)
(* nil result of the callback, a Do call invokes the executor at most N    *)
(* times and never again after an attempt that returned a response with a  *)
(* non-retryable status and no error; when the retrier is noRetry or a     *)
(* mockRetrier the number of invocations of a finished call is the minimum *)
(* of N and the index of the first such attempt.                           *)
(***************************************************************************)
Min(a, b) == IF a <= b THEN a ELSE b

\* the index of the first attempt among outs that returned a non-retryable
\* status, Len(outs) + 1 when there is none
FirstFinal(outs) ==
    IF \E i \in 1..Len(outs) : IsFinalStatus(outs[i])
    THEN CHOOSE i \in 1..Len(outs) :
            /\ IsFinalStatus(outs[i])
            /\ \A j \in 1..(i - 1) : ~IsFinalStatus(outs[j])
    ELSE Len(outs) + 1

C22_AttemptsBounded ==
    /\ count <= MaxOf(client.retrier)
    /\ count <= FirstFinal(outcomes)
    /\ (Done /\ retrierCalls >= 1 /\ LastErrorRetrier(client.retrier))
          => count = Min(MaxOf(client.retrier), FirstFinal(outcomes))

\* a retrier of three attempts stopped by the final status of the second
C22_Witness ==
    /\ Done
    /\ client.retrier = mockRetrier(3)
    /\ count = 2
    /\ IsRetryableStatus(outcomes[1])
    /\ IsFinalStatus(outcomes[2])
    /\ FirstFinal(outcomes) = 2

(***************************************************************************)
(* C23 as stated: with a retrier that invokes the callback finitely often  *)
(* and an executor whose calls all return, every Do call returns.          *)
(***************************************************************************)
C23_Original == (pc = "Do") ~> Done

(***************************************************************************)
(* C23 amended: with a retrier that invokes the callback finitely often    *)
(* and an executor whose calls all return, every Do call whose request has *)
(* no body, or a body that io.ReadAll can read to its end or to an error,  *)
(* returns; a call whose body stream never ends stays in the capture of    *)
(* the body and makes no attempt.                                          *)
(***************************************************************************)
C23_TerminatesWhenBodyEnds ==
    /\ (pc = "Do" /\ ReadAllReturns(req, orig)) ~> Done
    /\ []((pc = "Do" /\ ~ReadAllReturns(req, orig)) => [](pc = "Do" /\ count = 0))

\* a call that made every attempt its retrier allows and returned
C23_Witness ==
    /\ Done
    /\ client.retrier = mockRetrier(MaxLiveAttempts)
    /\ count = MaxLiveAttempts
    /\ ~call.content.isNil
    /\ ret.set

(***************************************************************************)
(* C24: the attempts of a Do call follow one another: at most one          *)
(* invocation of the executor is under way; an attempt starts only when    *)
(* every earlier invocation has returned, and it starts by installing in   *)
(* req.Body a new reader at the start of the captured buffer, which is the *)
(* request the executor then receives.                                     *)
(***************************************************************************)
\* the number of invocations of the executor that have not returned
InFlight == count - Len(outcomes)

C24_AttemptsSequential ==
    /\ [](/\ InFlight \in {0, 1}
          /\ (InFlight = 1) = (pc = "executor")
          /\ Len(sent) = count)
    /\ [][count' # count =>
            /\ InFlight = 0
            /\ count' = count + 1
            /\ view' = newNopCloserFromBody(body)
            /\ req'.Body = (IF body.isNil THEN "nil" ELSE "view")
            /\ sent' = Append(sent, req')
            /\ outcomes' = outcomes
            /\ pc' = "executor"]_vars

\* the third attempt is under way on a new reader, two have returned, the
\* second of them having left its reader read and closed
C24_Witness ==
    /\ pc = "executor"
    /\ count = 3
    /\ Len(outcomes) = 2
    /\ leftover
    /\ view = Stream(Data(MaxBodyLen), FALSE, FALSE)
    /\ sent[3].Body = "view"

(***************************************************************************)
(* The concurrent harness: two goroutines call Do on one client, each with *)
(* a request of its own, and their steps interleave in any order.  The     *)
(* variables of Do (req, body, res, err, the retrier's loop variable) are  *)
(* locals of a call: calls[p] holds those of the call of goroutine p.      *)
(***************************************************************************)
Callers == {1, 2}

\* the body content of the request of caller p: bytes no other request has
OwnData(p) == [i \in 1..MaxBodyLen |-> 10 * p + i]

\* the number that identifies invocation n of the executor by caller p
InvocationOf(p, n) == 10 * p + n

\* the locals of a Do call entered with request r whose body stream is o
Locals(r, o) ==
    [pc |-> "Do", req |-> r, orig |-> o, content |-> ContentOf(o),
     view |-> NilStream, body |-> NilBuf, res |-> NilRes, err |-> NilErr,
     attempt |-> 0, count |-> 0, observed |-> <<>>, outcomes |-> <<>>,
     ret |-> NoRet]

ConcClients ==
    {NewClient(<<>>),
     NewClient(<<WithRetrier(mockRetrier(MaxConcAttempts)),
                 WithRetryPolicy("serverErrorPolicy")>>),
     NewClient(<<WithHTTPClient("mockHTTPClient"),
                 WithRetrier(mockRetrier(MaxConcAttempts))>>)}

InitConc ==
    /\ client \in ConcClients
    /\ pc = "concurrent"
    /\ calls \in [Callers ->
          {Locals(Request("POST", dummyURL, "background", "nil"), NilStream)}]
            \cup {[q \in Callers |->
                     IF q \in S
                     THEN Locals(Request("POST", dummyURL, "background", "orig"),
                                 Stream(OwnData(q), FALSE, FALSE))
                     ELSE Locals(Request("GET", dummyURL, "background", "nil"), NilStream)]
                  : S \in SUBSET Callers}
    /\ call = NoCall
    /\ req = NilReq
    /\ orig = NilStream
    /\ view = NilStream
    /\ body = NilBuf
    /\ res = NilRes
    /\ err = NilErr
    /\ attempt = 0
    /\ count = 0
    /\ retrierCalls = 0
    /\ observed = <<>>
    /\ outcomes = <<>>
    /\ leftover = FALSE
    /\ views = <<>>
    /\ handles = <<>>
    /\ retrierCtx = "nil"
    /\ handed = <<>>
    /\ sent = <<>>
    /\ signals = <<>>
    /\ policyCalls = <<>>
    /\ resBodies = <<>>
    /\ prior = NoPrior
    /\ given = <<>>
    /\ ret = NoRet

concFrame == <<client, pc, call, req, orig, view, body, res, err, attempt, count,
               retrierCalls, observed, outcomes, leftover, replayVars, historyVars,
               prior, given, ret>>

\* a mutant of StoreResult: res and err are variables all calls share
StoreResult_shared(cs, p, r, e) ==
    [q \in DOMAIN cs |-> [cs[q] EXCEPT !.res = r, !.err = e]]

\* client.go:199-202 and 213: res and err are variables of the call of Do
\* that the callback assigns; cs are the calls, p the one whose callback ran
StoreResult(cs, p, r, e) == [cs EXCEPT ![p].res = r, ![p].err = e]

\* client.go:203-207 in the call of p
ConcCopyBody(p) ==
    LET l == calls[p]
        c == copyHTTPRequestBody(l.req, l.orig)
    IN  /\ l.pc = "Do"
        /\ calls' = [calls EXCEPT
              ![p].orig = c.orig,
              ![p].body = c.body,
              ![p].err = c.err,
              ![p].ret = IF c.err # NilErr THEN Return(NilRes, c.err) ELSE @,
              ![p].pc = IF c.err # NilErr THEN "done" ELSE "retrier"]
        /\ UNCHANGED concFrame

\* client.go:211-213 in the call of p: the callback installs a new reader and
\* calls the executor
ConcAttempt(p) ==
    LET l == calls[p]
        v == newNopCloserFromBody(l.body)
        r == CallbackRequest(l.req, HandedContext(client.retrier, l.req.ctx), v)
    IN  /\ l.pc = "retrier"
        /\ calls' = [calls EXCEPT
              ![p].view = v,
              ![p].req = r,
              ![p].count = @ + 1,
              ![p].observed = Append(@, Readable(r, l.orig, v)),
              ![p].pc = "executor"]
        /\ UNCHANGED concFrame

\* the executor, which like mockHTTPClient.Do (lines 57-61) reads the body of
\* the request it was given to the end, returns to the callback of p
ConcExecutorReturn(p) ==
    \E out \in ExecutorOutcomes(InvocationOf(p, calls[p].count)) :
        LET l    == calls[p]
            cb   == Callback(l.res, out, client.retryPolicy)
            step == RetrierStep(client.retrier, l.attempt, cb.signal)
        IN  /\ l.pc = "executor"
            /\ calls' = StoreResult(
                  [calls EXCEPT
                     ![p].view = ReadSome(@, Len(Remaining(@)), FALSE),
                     ![p].outcomes = Append(@, out),
                     ![p].attempt = IF step.again THEN @ + 1 ELSE @,
                     ![p].pc = IF step.again THEN "retrier" ELSE "return"],
                  p, cb.res, IF step.again THEN cb.err ELSE step.err)
            /\ UNCHANGED concFrame

\* client.go:224-228 in the call of p
ConcDoReturn(p) ==
    LET l == calls[p]
    IN  /\ l.pc = "return"
        /\ calls' = [calls EXCEPT ![p].ret = DoResult(l.res, l.err), ![p].pc = "done"]
        /\ UNCHANGED concFrame

NextConc ==
    \E p \in Callers :
        \/ ConcCopyBody(p)
        \/ ConcAttempt(p)
        \/ ConcExecutorReturn(p)
        \/ ConcDoReturn(p)

SpecConc == InitConc /\ [][NextConc]_vars

RECURSIVE SoloRun(_, _, _, _)
\* what a Do call on client c returns when it runs alone and the executor
\* answers outs, a being the retrier's loop variable and prev the value of
\* res; NoRet when the call would go on after outs
SoloRun(c, outs, a, prev) ==
    IF outs = <<>> THEN NoRet
    ELSE LET cb   == Callback(prev, Head(outs), c.retryPolicy)
             step == RetrierStep(c.retrier, a, cb.signal)
         IN  IF step.again THEN SoloRun(c, Tail(outs), a + 1, cb.res)
             ELSE IF Tail(outs) # <<>> THEN NoRet
             ELSE DoResult(cb.res, step.err)

(***************************************************************************)
(* C25: two Do calls that run concurrently on one client with different    *)
(* requests share no mutable state: a step of one call changes nothing of  *)
(* the other and nothing of the client; in every interleaving each         *)
(* invocation of the executor sees the body of its own request, and a call *)
(* returns what it returns when it runs alone against the same outcomes of *)
(* the executor.                                                           *)
(***************************************************************************)
C25_ConcurrentCallsIndependent ==
    /\ [](\A p \in Callers :
            /\ \A i \in 1..Len(calls[p].observed) :
                   calls[p].observed[i] = calls[p].content
            /\ \A i \in 1..Len(calls[p].outcomes) :
                   calls[p].outcomes[i] \in ExecutorOutcomes(InvocationOf(p, i))
            /\ calls[p].pc = "done" =>
                   calls[p].ret = SoloRun(client, calls[p].outcomes, 0, NilRes))
    /\ [][/\ client' = client
          /\ \A p \in Callers :
                calls'[p] # calls[p] => \A q \in Callers \ {p} : calls'[q] = calls[q]]_vars

\* both calls are in the executor at once, the first on its second attempt,
\* each with its own body
C25_Witness ==
    /\ pc = "concurrent"
    /\ calls[1].pc = "executor"
    /\ calls[2].pc = "executor"
    /\ calls[1].count = 2
    /\ calls[2].count = 1
    /\ calls[1].observed = <<Buf(OwnData(1)), Buf(OwnData(1))>>
    /\ calls[2].observed = <<Buf(OwnData(2))>>

(***************************************************************************)
(* C26: of the request it was given Do changes the field Body and nothing  *)
(* else: from the entry of Do on, the method, URL, headers and context of  *)
(* the request stay what they were, and so they are in the request the     *)
(* executor receives on every attempt; no step of Do or of a verb helper   *)
(* changes the client's executor, retrier or retry policy.                 *)
(***************************************************************************)
\* the request r without its field Body
Unbodied(r) == [r EXCEPT !.Body = "nil"]

C26_OnlyBodyChanges ==
    /\ [](\A i \in 1..Len(sent) :
            /\ Unbodied(sent[i]) = Unbodied(req)
            /\ (call.fn \in Methods =>
                   /\ sent[i].Method = call.fn
                   /\ sent[i].URL = call.url
                   /\ sent[i].Header = call.headers
                   /\ sent[i].ctx = call.ctx))
    /\ [][/\ client' = client
          /\ (pc # "idle" => Unbodied(req') = Unbodied(req))]_vars

\* two attempts of a Put with headers and a cancelled context: the body
\* field was changed, the rest is as the caller gave it
C26_Witness ==
    /\ pc = "executor"
    /\ call.fn = "PUT"
    /\ count = 2
    /\ req.Body = "view"
    /\ \A i \in 1..2 :
          sent[i] = [isNil |-> FALSE, Method |-> "PUT", URL |-> dummyURL,
                     Header |-> dummyHeader, ctx |-> "cancelled", Body |-> "view"]
    /\ client.retrier.type = "mockRetrier"

(***************************************************************************)
(* Do called a second time: when a Do call has returned, the caller calls  *)
(* Do again, on the same client, with the same *http.Request, as it is.    *)
(***************************************************************************)
AgainClients ==
    {NewClient(<<>>),
     NewClient(<<WithRetrier(mockRetrier(MaxAgainAttempts)),
                 WithRetryPolicy("serverErrorPolicy")>>)}

InitAgain ==
    /\ Init
    /\ client \in AgainClients

\* client.Do(req) once more: the locals of Do and the record of the call are
\* new, the request and the streams are what the first call left; prior
\* notes the body content the first call was given, what req.Body refers to
\* and how far the stream the first call left there has been read
DoAgain ==
    /\ pc = "done"
    /\ DoEntered
    /\ ~prior.set
    /\ prior' = [set |-> TRUE, content |-> call.content, ref |-> req.Body,
                 pos |-> BodyOf(req, orig, view).pos]
    /\ pc' = "Do"
    /\ body' = NilBuf
    /\ res' = NilRes
    /\ err' = NilErr
    /\ attempt' = 0
    /\ count' = 0
    /\ retrierCalls' = 0
    /\ observed' = <<>>
    /\ outcomes' = <<>>
    /\ leftover' = FALSE
    /\ retrierCtx' = "nil"
    /\ handed' = <<>>
    /\ sent' = <<>>
    /\ signals' = <<>>
    /\ policyCalls' = <<>>
    /\ resBodies' = <<>>
    /\ ret' = NoRet
    /\ UNCHANGED <<client, call, req, orig, view, replayVars, calls, given>>

NextAgain ==
    \/ DoCall
    \/ CopyBody
    \/ Attempt
    \/ ExecutorReturn
    \/ DoReturn
    \/ DoAgain

SpecAgain == InitAgain /\ [][NextAgain]_vars

\* the bytes of buffer b from position n on
From(b, n) == Buf(SubSeq(b.bytes, n + 1, Len(b.bytes)))

C28_ResponseBodiesUntouched ==
    /\ Len(resBodies) = Len(outcomes)
    /\ \A i \in 1..Len(outcomes) :
          /\ resBodies[i] = ResBodyOf(outcomes[i])
          /\ (~outcomes[i].res.isNil => ~resBodies[i].read /\ resBodies[i].closed = 0)
    /\ (Done /\ ~ret.res.isNil)
          => /\ ret.res = outcomes[ret.res.id].res
             /\ resBodies[ret.res.id] = FreshResBody

\* the response of the first attempt was replaced, the one of the second
\* dropped for the error that came with it: both bodies are still open
C28_Witness ==
    /\ Done
    /\ Len(outcomes) = 2
    /\ IsRetryableStatus(outcomes[1])
    /\ outcomes[2] = [res |-> Response(StatusFound, 2), err |-> errRedirect]
    /\ ret = Return(NilRes, errRedirect)
    /\ resBodies = <<FreshResBody, FreshResBody>>

(***************************************************************************)
(* C29: Do calls the retrier with the context of the request, and on every *)
(* attempt the executor receives the request with that same context,       *)
(* whatever context the retrier handed the callback for the attempt: the   *)
(* callback does not use it.                                               *)
(***************************************************************************)
C29_RequestContextKept ==
    /\ retrierCalls >= 1 => retrierCtx = call.ctx /\ retrierCtx = req.ctx
    /\ Len(handed) = Len(sent)
    /\ \A i \in 1..Len(sent) :
          /\ sent[i].ctx = call.ctx
          /\ sent[i].ctx = retrierCtx
          /\ (client.retrier.type \in {"noRetry", "mockRetrier"} => handed[i] = retrierCtx)

\* the retrier handed the callback a context of its own on two attempts; the
\* requests went out with the caller's context
C29_Witness ==
    /\ pc = "executor"
    /\ client.retrier.type = "ctxRetrier"
    /\ retrierCtx = "background"
    /\ handed = <<perAttemptContext, perAttemptContext>>
    /\ sent[1].ctx = "background"
    /\ sent[2].ctx = "background"

(***************************************************************************)
(* NewClient followed step by step: the client starts as the defaults and  *)
(* the loop over the options applies them one after the other.             *)
(***************************************************************************)
InitBuild ==
    /\ client = NewClient(<<>>)
    /\ pc = "NewClient"
    /\ call = NoCall
    /\ req = NilReq
    /\ orig = NilStream
    /\ view = NilStream
    /\ body = NilBuf
    /\ res = NilRes
    /\ err = NilErr
    /\ attempt = 0
    /\ count = 0
    /\ retrierCalls = 0
    /\ observed = <<>>
    /\ outcomes = <<>>
    /\ leftover = FALSE
    /\ views = <<>>
    /\ handles = <<>>
    /\ retrierCtx = "nil"
    /\ handed = <<>>
    /\ sent = <<>>
    /\ signals = <<>>
    /\ policyCalls = <<>>
    /\ resBodies = <<>>
    /\ prior = NoPrior
    /\ calls = <<>>
    /\ given = <<>>
    /\ ret = NoRet

buildFrame == <<call, req, orig, view, body, res, err, attempt, count, retrierCalls,
                observed, outcomes, leftover, replayVars, historyVars, prior, calls,
                ret>>

\* client.go:346-349: one iteration of for _, opt := range opts { opt(&client) }
ApplyNextOption ==
    \E o \in Options :
        /\ pc = "NewClient"
        /\ Len(given) < MaxOptions
        /\ client' = ApplyOption(client, o)
        /\ given' = Append(given, o)
        /\ UNCHANGED <<pc, buildFrame>>

\* client.go:351: return &client
NewClientReturn ==
    /\ pc = "NewClient"
    /\ pc' = "idle"
    /\ UNCHANGED <<client, given, buildFrame>>

NextBuild ==
    \/ ApplyNextOption
    \/ NewClientReturn

SpecBuild == InitBuild /\ [][NextBuild]_vars

(***************************************************************************)
(* C30: NewClient starts from the defaults (http.Client, noRetry, the      *)
(* policy that retries nothing) and applies its options in the order       *)
(* given: every collaborator of the client is the one of the last option   *)
(* of its kind in the list, the default when there is none; applying one   *)
(* option changes the collaborator of its kind and leaves the other two.   *)
(***************************************************************************)
\* the positions of the options of kind k in the list opts
Positions(opts, k) == {i \in 1..Len(opts) : opts[i].opt = k}

\* the last option of kind k in opts
LastOption(opts, k) ==
    opts[CHOOSE i \in Positions(opts, k) : \A j \in Positions(opts, k) : j <= i]

C30_OptionsApplyInOrder ==
    /\ [](/\ client = NewClient(given)
          /\ client.client = (IF Positions(given, "WithHTTPClient") = {} THEN "http.Client"
                              ELSE LastOption(given, "WithHTTPClient").client)
          /\ client.retrier = (IF Positions(given, "WithRetrier") = {} THEN noRetry
                               ELSE LastOption(given, "WithRetrier").retrier)
          /\ client.retryPolicy = (IF Positions(given, "WithRetryPolicy") = {}
                                   THEN "defaultRetryPolicy"
                                   ELSE LastOption(given, "WithRetryPolicy").policy))
    /\ [][given' # given =>
            LET o == given'[Len(given')]
            IN  /\ given' = Append(given, o)
                /\ (o.opt = "WithHTTPClient" =>
                       client' = [client EXCEPT !.client = o.client])
                /\ (o.opt = "WithRetrier" =>
                       client' = [client EXCEPT !.retrier = o.retrier])
                /\ (o.opt = "WithRetryPolicy" =>
                       client' = [client EXCEPT !.retryPolicy = o.policy])]_vars

\* two retrier options around a policy option: NewClient returned the client
\* with the second retrier, the policy given and the default executor
C30_Witness ==
    /\ pc = "idle"
    /\ given = <<WithRetrier(mockRetrier(1)), WithRetryPolicy("serverErrorPolicy"),
                 WithRetrier(mockRetrier(2))>>
    /\ client = [client |-> "http.Client", retrier |-> mockRetrier(2),
                 retryPolicy |-> "serverErrorPolicy"]

====
